---- MODULE Spec2Model ----
(***************************************************************************)
(* Model of the zp-memory-pool allocators.                                 *)
(*                                                                         *)
(*  - generation 1 (src/version1): MemoryPool, a slab pool with an         *)
(*    intrusive free list guarded by two mutexes, and HashBucket, the      *)
(*    size-bucketed front end over 64 pools;                               *)
(*  - generation 2 (src/version2): ThreadCache, the per-thread cache in    *)
(*    front of CentralCache, and SizeClass.                                *)
(*                                                                         *)
(* Addresses are machine words of WordBits bits; the null pointer is 0.    *)
(* An intrusive singly linked chain is modelled by the sequence of the     *)
(* addresses it links, its head first.                                     *)
(***************************************************************************)
EXTENDS Integers, Sequences, FiniteSets, TLC

\* ------------------------------------------------------------------ words
\* Width of size_t and of a pointer in the model (the build has 64).
WordBits == 16
WordMod == 2^WordBits
\* nullptr
NULL == 0
\* sizeof(Slot*): the link word at the head of a raw block
PtrSize == 8

Wrap(x) == x % WordMod

Range(s) == {s[i] : i \in DOMAIN s}

\* ------------------------------------------------- the backing allocator
\* operator new / operator delete: an arena of ArenaUnits 8-byte units that
\* starts at ArenaBase. An acquisition may land on any 8-aligned address
\* whose bytes are not part of an outstanding acquisition.
HeapAlign == PtrSize
ArenaBase == 8 * HeapAlign
\* most slots carved from raw blocks in one run
MaxCarved == 4
\* room for one raw block of up to 40 bytes, and the gap before it, per slot
\* carved: the backing allocator does not run out
ArenaUnits == MaxCarved * 6

ArenaEnd == ArenaBase + HeapAlign * ArenaUnits

HeapAddrs == {ArenaBase + HeapAlign * k : k \in 0..(ArenaUnits - 1)}

Fits(h, a, n, end) ==
    /\ n > 0
    /\ a + n <= end
    /\ \A r \in h : a + n <= r.base \/ r.base + r.size <= a

\* operator new(n) over the candidate addresses addrs: the lowest free
\* address of each 16-byte phase (0 and 8)
OperatorNewIn(addrs, end, h, n) ==
    {a \in addrs :
        /\ Fits(h, a, n, end)
        /\ \A b \in addrs :
              (b < a /\ (b % 16) = (a % 16)) => ~Fits(h, b, n, end)}

OperatorNew(h, n) == OperatorNewIn(HeapAddrs, ArenaEnd, h, n)

\* operator delete(ptr)
OperatorDelete(h, ptr) == {r \in h : r.base # ptr}

\* ---------------------------------------------------- MemoryPool (v1)
VARIABLES
    pool,                   \* the MemoryPool object's fields
    phase,                  \* "constructed" | "ready" | "destroyed"
    mutex_for_free_list_,   \* 0 (free) or the thread that holds it
    mutex_for_block_,       \* 0 (free) or the thread that holds it
    pc,                     \* each thread's position in Allocate/Deallocate
    arg,                    \* the pointer a thread passed to Deallocate
    held,                   \* the pointers each thread currently owns
    heap,                   \* outstanding acquisitions of the backing allocator
    acquired,               \* raw blocks acquired since construction
    released,               \* raw blocks handed to operator delete, in order
    carved,                 \* slots ever bump-allocated from raw blocks
    peakLive,               \* most pointers ever owned at one time
    nullReturned,           \* some Allocate returned nullptr
    aliased,                \* some Allocate returned a pointer then owned
    inits,                  \* number of init calls made
    trace,                  \* the calls last completed, while they are recorded
    budget                  \* the calls each thread may still make (-1: any)

poolVars == <<pool, phase, mutex_for_free_list_, mutex_for_block_, pc, arg, held,
              heap, acquired, released, carved, peakLive, nullReturned, aliased,
              inits, trace, budget>>

VARIABLES
    pools,          \* HashBucket's static MemoryPool pools[MEMORY_POOL_NUM]
    bucketReady,    \* initMemoryPool has run
    bheap,          \* outstanding acquisitions of the backing allocator
    owned,          \* what the caller owns: [ptr, size] as passed to useMemory
    reqSize,        \* the pooled request size the caller works with
    last            \* the last HashBucket call: its arguments and its outcome

bucketVars == <<pools, bucketReady, bheap, owned, reqSize, last>>

\* ----------------------------------------------------- ThreadCache (v2)
VARIABLES
    free_list_,         \* per class: the thread's free chain, head first
    free_list_size_,    \* per class: the occupancy counter
    tcHeld,             \* what the caller owns: [ptr, size] as asked
    fresh,              \* slots CentralCache has handed out so far
    fetches,            \* fetchRange calls made so far
    central,            \* slots handed back to CentralCache
    tlast               \* the last ThreadCache call: arguments and outcome

tcVars == <<free_list_, free_list_size_, tcHeld, fresh, fetches, central, tlast>>

vars == <<poolVars, bucketVars, tcVars>>

\* the threads that call into the pool
Threads == {1, 2}
\* most pointers one thread owns at a time
MaxHeld == 2
\* most init calls on the pool
MaxInits == 2
\* block sizes given to the constructor, slot sizes given to init
BlockSizes == {24, 40}
SlotSizes == {8, 16}

\* a block of the pool has room for its link word, the padding and a slot
Roomy(block_size, slot_size) == block_size >= PtrSize + (slot_size - 1) + slot_size

\* MemoryPool::MemoryPool
MemoryPool(block_size) ==
    [block_size_ |-> block_size, slot_size_ |-> 0,
     \* first_block_ and the blocks linked behind it
     blocks |-> <<>>,
     current_slot_ |-> NULL, free_list_ |-> <<>>, last_slot_ |-> NULL]

\* MemoryPool::init
PoolInit(P, size) ==
    [P EXCEPT !.slot_size_ = size, !.blocks = <<>>, !.current_slot_ = NULL,
              !.free_list_ = <<>>, !.last_slot_ = NULL]

\* MemoryPool::PadPointer
PadPointer(p, align) == Wrap(align - p) % align

\* MemoryPool::AllocateNewBlock, the block landing on new_block
AllocateNewBlock(P, new_block) ==
    LET body == Wrap(new_block + PtrSize)
        padding_size == PadPointer(body, P.slot_size_)
        block_end == Wrap(new_block + P.block_size_)
    IN  [P EXCEPT !.blocks = <<new_block>> \o @,
                  !.current_slot_ = Wrap(body + padding_size),
                  !.last_slot_ = Wrap(block_end - P.slot_size_)]

\* the test of line 52
BlockExhausted(P) == P.current_slot_ = NULL \/ P.current_slot_ > P.last_slot_

\* lines 57-59: the slot handed out and the cursor moved past it
BumpSlot(P) == P.current_slot_

\* a cursor moved by one byte instead of one slot
Bump_OneByte(P) == [P EXCEPT !.current_slot_ = Wrap(@ + 1)]

Bump(P) == [P EXCEPT !.current_slot_ = Wrap(@ + P.slot_size_)]

\* PopFree that forgets to advance the head
PopFree_NoAdvance(P) == P

\* lines 42-43
PopFree(P) == [P EXCEPT !.free_list_ = Tail(@)]

\* a push that links the freed slot behind the last one
PushFree_AtTail(P, ptr) == [P EXCEPT !.free_list_ = @ \o <<ptr>>]

\* lines 69-70
PushFree(P, ptr) == [P EXCEPT !.free_list_ = <<ptr>> \o @]

Live == UNION {held[t] : t \in Threads}

Max(a, b) == IF a >= b THEN a ELSE b

\* most completed calls the record keeps
TraceLen == 4
\* a budget that is not counted
Unlimited == 0 - 1
\* most calls a thread makes when its calls are counted
MaxCalls == 2

\* the record of completed calls with call e added, the oldest dropped
Log(tr, e) ==
    IF ~tr.on THEN tr
    ELSE [tr EXCEPT !.calls =
            IF Len(@) < TraceLen THEN Append(@, e) ELSE Append(Tail(@), e)]

\* thread t begins a call
Spend(t) == [budget EXCEPT ![t] = IF @ = Unlimited THEN @ ELSE @ - 1]

\* a thread receives the result of Allocate
Receive(t, ptr) ==
    /\ held' = [held EXCEPT ![t] = @ \cup {ptr}]
    /\ nullReturned' = (nullReturned \/ ptr = NULL)
    /\ aliased' = (aliased \/ ptr \in Live)
    /\ peakLive' = Max(peakLive, Cardinality(Live \cup {ptr}))
    /\ trace' = Log(trace, [op |-> "Allocate", ptr |-> ptr])

\* the threads inside Allocate: each may carve one more slot
InAllocate == {t \in Threads : pc[t] \in {"A40", "A41", "A51", "A54", "A57"}}

Quiescent == \A t \in Threads : pc[t] = "idle"

PoolStartState ==
    /\ pool \in {MemoryPool(b) : b \in BlockSizes}
    /\ phase = "constructed"
    /\ mutex_for_free_list_ = 0
    /\ mutex_for_block_ = 0
    /\ pc = [t \in Threads |-> "idle"]
    /\ arg = [t \in Threads |-> NULL]
    /\ held = [t \in Threads |-> {}]
    /\ heap = {}
    /\ acquired = {}
    /\ released = <<>>
    /\ carved = {}
    /\ peakLive = 0
    /\ nullReturned = FALSE
    /\ aliased = FALSE
    /\ inits = 0

PoolInitState ==
    /\ PoolStartState
    /\ trace = [on |-> FALSE, calls |-> <<>>]
    /\ budget = [t \in Threads |-> Unlimited]

\* pool.init(size), called while no thread is inside the pool
CallInit ==
    /\ phase \in {"constructed", "ready"}
    /\ Quiescent
    /\ inits < MaxInits
    /\ \E size \in SlotSizes :
          /\ Roomy(pool.block_size_, size)
          /\ pool' = PoolInit(pool, size)
    /\ phase' = "ready"
    /\ inits' = inits + 1
    /\ UNCHANGED <<mutex_for_free_list_, mutex_for_block_, pc, arg, held, heap,
                   acquired, released, carved, peakLive, nullReturned, aliased,
                   trace, budget>>

\* pool.init(size) with any of the slot sizes, whatever the block size
CallInitAny ==
    /\ phase \in {"constructed", "ready"}
    /\ Quiescent
    /\ inits < MaxInits
    /\ \E size \in SlotSizes : pool' = PoolInit(pool, size)
    /\ phase' = "ready"
    /\ inits' = inits + 1
    /\ UNCHANGED <<mutex_for_free_list_, mutex_for_block_, pc, arg, held, heap,
                   acquired, released, carved, peakLive, nullReturned, aliased,
                   trace, budget>>

\* a line 38 that never looks at the free list
RacyNonNull_Never(t) == {FALSE}

\* The unlocked read of free_list_ at line 38. It races with a writer, who
\* always holds mutex_for_free_list_: then the read may see either value.
RacyNonNull(t) ==
    IF mutex_for_free_list_ \notin {0, t}
    THEN {TRUE, FALSE}
    ELSE {pool.free_list_ # <<>>}

\* Allocate, line 38
AllocateCall(t) ==
    /\ phase = "ready"
    /\ pc[t] = "idle"
    /\ budget[t] # 0
    /\ budget' = Spend(t)
    /\ Cardinality(held[t]) < MaxHeld
    /\ Cardinality(carved) + Cardinality(InAllocate) < MaxCarved
    /\ \E seen \in RacyNonNull(t) :
          pc' = [pc EXCEPT ![t] = IF seen THEN "A40" ELSE "A51"]
    /\ UNCHANGED <<pool, phase, mutex_for_free_list_, mutex_for_block_, arg, held,
                   heap, acquired, released, carved, peakLive, nullReturned,
                   aliased, inits,
                   trace>>

\* Allocate, line 40: lock_guard on mutex_for_free_list_
AllocateLockFree(t) ==
    /\ pc[t] = "A40"
    /\ mutex_for_free_list_ = 0
    /\ mutex_for_free_list_' = t
    /\ pc' = [pc EXCEPT ![t] = "A41"]
    /\ UNCHANGED <<pool, phase, mutex_for_block_, arg, held, heap, acquired,
                   released, carved, peakLive, nullReturned, aliased, inits,
                   trace, budget>>

\* a pop whose lock_guard outlives the if: with the list found empty the
\* thread goes on to line 51 with mutex_for_free_list_ still held
AllocatePop_KeepLock(t) ==
    /\ pc[t] = "A41"
    /\ IF pool.free_list_ # <<>>
       THEN /\ pool' = PopFree(pool)
            /\ Receive(t, Head(pool.free_list_))
            /\ mutex_for_free_list_' = 0
            /\ pc' = [pc EXCEPT ![t] = "idle"]
       ELSE /\ pc' = [pc EXCEPT ![t] = "A51"]
            /\ UNCHANGED <<pool, held, nullReturned, aliased, peakLive,
                           mutex_for_free_list_,
                           trace>>
    /\ UNCHANGED <<phase, mutex_for_block_, arg, heap, acquired, released, carved,
                   inits,
                   budget>>

\* Allocate, lines 41-46: the re-check under the lock, the pop, the unlock
AllocatePop(t) ==
    /\ pc[t] = "A41"
    /\ mutex_for_free_list_' = 0
    /\ IF pool.free_list_ # <<>>
       THEN /\ pool' = PopFree(pool)
            /\ Receive(t, Head(pool.free_list_))
            /\ pc' = [pc EXCEPT ![t] = "idle"]
       ELSE /\ pc' = [pc EXCEPT ![t] = "A51"]
            /\ UNCHANGED <<pool, held, nullReturned, aliased, peakLive,
                           trace>>
    /\ UNCHANGED <<phase, mutex_for_block_, arg, heap, acquired, released, carved,
                   inits,
                   budget>>

\* a line 51 that goes on without taking mutex_for_block_
AllocateLockBlock_NoLock(t) ==
    /\ pc[t] = "A51"
    /\ pc' = [pc EXCEPT ![t] = IF BlockExhausted(pool) THEN "A54" ELSE "A57"]
    /\ UNCHANGED <<pool, phase, mutex_for_free_list_, mutex_for_block_, arg, held,
                   heap, acquired, released, carved, peakLive, nullReturned,
                   aliased, inits,
                   trace, budget>>

\* Allocate, line 51: lock_guard on mutex_for_block_
AllocateLockBlock(t) ==
    /\ pc[t] = "A51"
    /\ mutex_for_block_ = 0
    /\ mutex_for_block_' = t
    /\ pc' = [pc EXCEPT ![t] = IF BlockExhausted(pool) THEN "A54" ELSE "A57"]
    /\ UNCHANGED <<pool, phase, mutex_for_free_list_, arg, held, heap, acquired,
                   released, carved, peakLive, nullReturned, aliased, inits,
                   trace, budget>>

\* Allocate, line 54: AllocateNewBlock, operator new inside it
AllocateGrow(t) ==
    /\ pc[t] = "A54"
    /\ \E new_block \in OperatorNew(heap, pool.block_size_) :
          /\ pool' = AllocateNewBlock(pool, new_block)
          /\ heap' = heap \cup {[base |-> new_block, size |-> pool.block_size_]}
          /\ acquired' = acquired \cup {new_block}
    /\ pc' = [pc EXCEPT ![t] = "A57"]
    /\ UNCHANGED <<phase, mutex_for_free_list_, mutex_for_block_, arg, held,
                   released, carved, peakLive, nullReturned, aliased, inits,
                   trace, budget>>

\* Allocate, lines 57-61: the bump, the unlock, the return
AllocateBump(t) ==
    /\ pc[t] = "A57"
    /\ pool' = Bump(pool)
    /\ carved' = carved \cup {BumpSlot(pool)}
    /\ Receive(t, BumpSlot(pool))
    /\ mutex_for_block_' = 0
    /\ pc' = [pc EXCEPT ![t] = "idle"]
    /\ UNCHANGED <<phase, mutex_for_free_list_, arg, heap, acquired, released,
                   inits,
                   budget>>

\* Deallocate(ptr), line 65: ptr is null or a pointer the thread owns
DeallocateCall(t) ==
    /\ phase = "ready"
    /\ pc[t] = "idle"
    /\ budget[t] # 0
    /\ budget' = Spend(t)
    /\ \E ptr \in held[t] \cup {NULL} :
          IF ptr # NULL
          THEN /\ held' = [held EXCEPT ![t] = @ \ {ptr}]
               /\ arg' = [arg EXCEPT ![t] = ptr]
               /\ pc' = [pc EXCEPT ![t] = "D68"]
          ELSE UNCHANGED <<held, arg, pc>>
    /\ UNCHANGED <<pool, phase, mutex_for_free_list_, mutex_for_block_, heap,
                   acquired, released, carved, peakLive, nullReturned, aliased,
                   inits,
                   trace>>

\* Deallocate, line 68: lock_guard on mutex_for_free_list_
DeallocateLock(t) ==
    /\ pc[t] = "D68"
    /\ mutex_for_free_list_ = 0
    /\ mutex_for_free_list_' = t
    /\ pc' = [pc EXCEPT ![t] = "D69"]
    /\ UNCHANGED <<pool, phase, mutex_for_block_, arg, held, heap, acquired,
                   released, carved, peakLive, nullReturned, aliased, inits,
                   trace, budget>>

\* a push that returns with mutex_for_free_list_ still locked
DeallocatePush_NoUnlock(t) ==
    /\ pc[t] = "D69"
    /\ pool' = PushFree(pool, arg[t])
    /\ trace' = Log(trace, [op |-> "Deallocate", ptr |-> arg[t]])
    /\ arg' = [arg EXCEPT ![t] = NULL]
    /\ pc' = [pc EXCEPT ![t] = "idle"]
    /\ UNCHANGED <<phase, mutex_for_free_list_, mutex_for_block_, held, heap,
                   acquired, released, carved, peakLive, nullReturned, aliased,
                   inits, budget>>

\* Deallocate, lines 69-71: the push, the unlock
DeallocatePush(t) ==
    /\ pc[t] = "D69"
    /\ pool' = PushFree(pool, arg[t])
    /\ trace' = Log(trace, [op |-> "Deallocate", ptr |-> arg[t]])
    /\ arg' = [arg EXCEPT ![t] = NULL]
    /\ mutex_for_free_list_' = 0
    /\ pc' = [pc EXCEPT ![t] = "idle"]
    /\ UNCHANGED <<phase, mutex_for_block_, held, heap, acquired, released, carved,
                   peakLive, nullReturned, aliased, inits,
                   budget>>

\* MemoryPool::~MemoryPool: operator delete on every block of the chain
Destroy ==
    /\ phase \in {"constructed", "ready"}
    /\ Quiescent
    /\ released' = released \o pool.blocks
    /\ heap' = {r \in heap : r.base \notin Range(pool.blocks)}
    /\ phase' = "destroyed"
    /\ UNCHANGED <<pool, mutex_for_free_list_, mutex_for_block_, pc, arg, held,
                   acquired, carved, peakLive, nullReturned, aliased, inits,
                   trace, budget>>

ThreadStep(t) ==
    \/ AllocateCall(t)
    \/ AllocateLockFree(t)
    \/ AllocatePop(t)
    \/ AllocateLockBlock(t)
    \/ AllocateGrow(t)
    \/ AllocateBump(t)
    \/ DeallocateCall(t)
    \/ DeallocateLock(t)
    \/ DeallocatePush(t)

\* a step of thread t inside a call it has begun
Running(t) ==
    \/ AllocateLockFree(t)
    \/ AllocatePop(t)
    \/ AllocateLockBlock(t)
    \/ AllocateGrow(t)
    \/ AllocateBump(t)
    \/ DeallocateLock(t)
    \/ DeallocatePush(t)

\* ------------------------------------- MemoryPool of src/src (older)
\* sizeof(Slot)
SlotStruct == PtrSize

\* src/src MemoryPool::AllocateNewBlock, the block landing on new_block: the
\* cursor is put one byte past the last slot's place, last_slot_ is left
\* alone and the free list is cleared
SrcAllocateNewBlock(P, new_block) ==
    [P EXCEPT !.blocks = <<new_block>> \o @,
              !.current_slot_ = Wrap(new_block + P.block_size_ - P.slot_size_ + 1),
              !.free_list_ = <<>>]

\* src/src Allocate, line 49
SrcBlockExhausted(P) == P.current_slot_ >= P.last_slot_

\* src/src Allocate, line 56: a Slot* moved by slot_size_ / sizeof(Slot)
SrcBump(P) ==
    [P EXCEPT !.current_slot_ = Wrap(@ + (P.slot_size_ \div SlotStruct) * SlotStruct)]

\* src/src Allocate, line 48: lock_guard on mutex_for_block_
SrcAllocateLockBlock(t) ==
    /\ pc[t] = "A51"
    /\ mutex_for_block_ = 0
    /\ mutex_for_block_' = t
    /\ pc' = [pc EXCEPT ![t] = IF SrcBlockExhausted(pool) THEN "A54" ELSE "A57"]
    /\ UNCHANGED <<pool, phase, mutex_for_free_list_, arg, held, heap, acquired,
                   released, carved, peakLive, nullReturned, aliased, inits,
                   trace, budget>>

\* src/src Allocate, line 51: AllocateNewBlock, operator new inside it
SrcAllocateGrow(t) ==
    /\ pc[t] = "A54"
    /\ \E new_block \in OperatorNew(heap, pool.block_size_) :
          /\ pool' = SrcAllocateNewBlock(pool, new_block)
          /\ heap' = heap \cup {[base |-> new_block, size |-> pool.block_size_]}
          /\ acquired' = acquired \cup {new_block}
    /\ pc' = [pc EXCEPT ![t] = "A57"]
    /\ UNCHANGED <<phase, mutex_for_free_list_, mutex_for_block_, arg, held,
                   released, carved, peakLive, nullReturned, aliased, inits,
                   trace, budget>>

\* src/src Allocate, lines 54-58: the bump, the unlock, the return
SrcAllocateBump(t) ==
    /\ pc[t] = "A57"
    /\ pool' = SrcBump(pool)
    /\ carved' = carved \cup {BumpSlot(pool)}
    /\ Receive(t, BumpSlot(pool))
    /\ mutex_for_block_' = 0
    /\ pc' = [pc EXCEPT ![t] = "idle"]
    /\ UNCHANGED <<phase, mutex_for_free_list_, arg, heap, acquired, released,
                   inits,
                   budget>>

\* a thread's step in the src/src pool: the free-list half of Allocate and
\* Deallocate are the same text as in version1
SrcThreadStep(t) ==
    \/ AllocateCall(t)
    \/ AllocateLockFree(t)
    \/ AllocatePop(t)
    \/ SrcAllocateLockBlock(t)
    \/ SrcAllocateGrow(t)
    \/ SrcAllocateBump(t)
    \/ DeallocateCall(t)
    \/ DeallocateLock(t)
    \/ DeallocatePush(t)

\* ------------------------------------------------------ HashBucket (v1)
MEMORY_POOL_NUM == 64
SLOT_BASE_SIZE == 8
MAX_SLOT_SIZE == 512
\* MemoryPool's default block size, which the static pools get
DefaultBlockSize == 4096

\* largest request size made of useMemory
MaxReq == 513
\* most allocations the caller owns at a time
MaxOwned == 2

\* The backing allocator as HashBucket sees it: cells of CellStride bytes
\* from BucketBase on, an acquisition starting at a cell's byte 0 or 8.
BucketBase == DefaultBlockSize
CellStride == DefaultBlockSize + 2 * HeapAlign
NumCells == 3

BucketEnd == BucketBase + CellStride * NumCells

BucketAddrs ==
    {BucketBase + CellStride * k + d : k \in 0..(NumCells - 1), d \in {0, HeapAlign}}

BucketNew(h, n) == OperatorNewIn(BucketAddrs, BucketEnd, h, n)

\* a useMemory that sends sizes up to MAX_SLOT_SIZE + 1 to the pools
Oversize_OffByOne(size) == size > MAX_SLOT_SIZE + 1

\* useMemory / freeMemory: size > MAX_SLOT_SIZE
Oversize(size) == size > MAX_SLOT_SIZE

\* a useMemory that lets size 0 through
ZeroSize_Never(size) == size < 0

\* useMemory: size <= 0
ZeroSize(size) == size <= 0

\* an index that forgets to round up
PoolIndex_RoundDown(size) == (size \div SLOT_BASE_SIZE) - 1

\* useMemory / freeMemory: ((size + 7) / SLOT_BASE_SIZE) - 1
PoolIndex(size) == ((size + 7) \div SLOT_BASE_SIZE) - 1

\* HashBucket::getMemoryPool: the index is in range
InRange(index) == ~(index < 0 \/ index >= MEMORY_POOL_NUM)

\* HashBucket::initMemoryPool
InitMemoryPool(PS) ==
    [i \in DOMAIN PS |-> PoolInit(PS[i], (i + 1) * SLOT_BASE_SIZE)]

\* MemoryPool::Allocate run by one thread alone, a new block landing on
\* new_block: the pool afterwards, the slot returned and where it came from
Allocate(P, new_block) ==
    IF P.free_list_ # <<>>
    THEN [pool |-> PopFree(P), ret |-> Head(P.free_list_), from |-> "free_list"]
    ELSE LET Q == IF BlockExhausted(P) THEN AllocateNewBlock(P, new_block) ELSE P
         IN  [pool |-> Bump(Q), ret |-> BumpSlot(Q),
              from |-> IF BlockExhausted(P) THEN "new_block" ELSE "bump"]

\* MemoryPool::Deallocate run by one thread alone
Deallocate(P, ptr) == IF ptr # NULL THEN PushFree(P, ptr) ELSE P

\* HashBucket::useMemory(size), an acquisition landing on new_block
UseMemory(PS, size, new_block) ==
    IF ZeroSize(size)
    THEN [pools |-> PS, ret |-> NULL, via |-> "none", index |-> -1, from |-> "none"]
    ELSE IF Oversize(size)
    THEN [pools |-> PS, ret |-> new_block, via |-> "system", index |-> -1,
          from |-> "none"]
    ELSE IF ~InRange(PoolIndex(size))
    THEN [pools |-> PS, ret |-> NULL, via |-> "throw", index |-> PoolIndex(size),
          from |-> "none"]
    ELSE LET r == Allocate(PS[PoolIndex(size)], new_block)
         IN  [pools |-> [PS EXCEPT ![PoolIndex(size)] = r.pool], ret |-> r.ret,
              via |-> "pool", index |-> PoolIndex(size), from |-> r.from]

\* HashBucket::freeMemory(ptr, size)
FreeMemory(PS, ptr, size) ==
    IF ptr = NULL
    THEN [pools |-> PS, via |-> "none", index |-> -1]
    ELSE IF Oversize(size)
    THEN [pools |-> PS, via |-> "system", index |-> -1]
    ELSE IF ~InRange(PoolIndex(size))
    THEN [pools |-> PS, via |-> "throw", index |-> PoolIndex(size)]
    ELSE [pools |-> [PS EXCEPT ![PoolIndex(size)] = Deallocate(@, ptr)],
          via |-> "pool", index |-> PoolIndex(size)]

NoCall ==
    [op |-> "none", size |-> 0, ptr |-> NULL, ret |-> NULL, via |-> "none",
     index |-> -1, from |-> "none"]

\* the sizes a caller that mixes requests asks for: 0, its pooled size, the
\* oversize ones
MixedSizes == {0, reqSize} \cup ((MAX_SLOT_SIZE + 1)..MaxReq)

\* the pooled sizes of the callers that mix requests
MixedPooled == {24, MAX_SLOT_SIZE}

BucketIdleState ==
    /\ pools = [i \in 0..(MEMORY_POOL_NUM - 1) |-> MemoryPool(DefaultBlockSize)]
    /\ bucketReady = FALSE
    /\ bheap = {}
    /\ owned = {}
    /\ last = NoCall

BucketInitState(pooled) ==
    /\ BucketIdleState
    /\ reqSize \in pooled

\* the first HashBucket::initMemoryPool call
CallInitMemoryPool ==
    /\ ~bucketReady
    /\ pools' = InitMemoryPool(pools)
    /\ bucketReady' = TRUE
    /\ last' = [NoCall EXCEPT !.op = "init"]
    /\ UNCHANGED <<bheap, owned, reqSize>>

\* a further HashBucket::initMemoryPool call, as each test's SetUp makes it
CallInitMemoryPoolAgain ==
    /\ bucketReady
    /\ pools' = InitMemoryPool(pools)
    /\ last' = [NoCall EXCEPT !.op = "init"]
    /\ UNCHANGED <<bucketReady, bheap, owned, reqSize>>

\* the block or the oversize chunk a useMemory(size) call would acquire
Acquires(size) ==
    IF ZeroSize(size) THEN 0
    ELSE IF Oversize(size) THEN size
    ELSE IF InRange(PoolIndex(size))
            /\ pools[PoolIndex(size)].free_list_ = <<>>
            /\ BlockExhausted(pools[PoolIndex(size)])
    THEN pools[PoolIndex(size)].block_size_
    ELSE 0

\* a call of HashBucket::useMemory(size), size among sizes
CallUseMemory(sizes) ==
    /\ bucketReady
    /\ Cardinality(owned) < MaxOwned
    /\ \E size \in sizes :
       \E new_block \in IF Acquires(size) = 0 THEN {NULL}
                        ELSE BucketNew(bheap, Acquires(size)) :
          LET r == UseMemory(pools, size, new_block)
          IN  /\ pools' = r.pools
              /\ bheap' = IF Acquires(size) = 0 THEN bheap
                          ELSE bheap \cup {[base |-> new_block, size |-> Acquires(size)]}
              /\ owned' = IF r.ret = NULL THEN owned
                          ELSE owned \cup {[ptr |-> r.ret, size |-> size]}
              /\ last' = [op |-> "use", size |-> size, ptr |-> NULL, ret |-> r.ret,
                          via |-> r.via, index |-> r.index, from |-> r.from]
    /\ UNCHANGED <<bucketReady, reqSize>>

\* a call of HashBucket::freeMemory(ptr, size): a null pointer, or a pointer
\* the caller owns with the size it was asked with
CallFreeMemory(sizes) ==
    /\ bucketReady
    /\ \E o \in owned \cup {[ptr |-> NULL, size |-> sz] : sz \in sizes} :
          LET r == FreeMemory(pools, o.ptr, o.size)
          IN  /\ pools' = r.pools
              /\ bheap' = IF r.via = "system" THEN OperatorDelete(bheap, o.ptr)
                          ELSE bheap
              /\ owned' = owned \ {o}
              /\ last' = [op |-> "free", size |-> o.size, ptr |-> o.ptr,
                          ret |-> NULL, via |-> r.via, index |-> r.index,
                          from |-> "none"]
    /\ UNCHANGED <<bucketReady, reqSize>>

\* the process has not been aborted by a failed assert
Alive == last.via # "abort"

\* a direct call of HashBucket::getMemoryPool(index), the index at and
\* around the ends of the range
CallGetMemoryPool ==
    /\ \E index \in {0 - 1, 0, MEMORY_POOL_NUM - 1, MEMORY_POOL_NUM} :
          last' = [NoCall EXCEPT !.op = "get", !.index = index,
                                 !.via = IF InRange(index) THEN "pool" ELSE "throw"]
    /\ UNCHANGED <<pools, bucketReady, bheap, owned, reqSize>>

\* the builds: assert compiled in, or compiled out by NDEBUG
AssertBuilds == {TRUE, FALSE}

\* MemoryPool::init(size) with its assert(size > 0): "abort" when the assert
\* is compiled in and fails, else the pool after init
CheckedInit(P, size, asserts) ==
    IF asserts /\ ~(size > 0)
    THEN [pool |-> P, via |-> "abort"]
    ELSE [pool |-> PoolInit(P, size), via |-> "pool"]

\* a call of HashBucket::getMemoryPool(0).init(size) on the pool of the
\* smallest class, which this caller never allocates from, with size 0 or
\* the size of the class
CallPoolInit ==
    /\ \E size \in {0, SLOT_BASE_SIZE}, asserts \in AssertBuilds :
          LET r == CheckedInit(pools[0], size, asserts)
          IN  /\ pools' = [pools EXCEPT ![0] = r.pool]
              /\ last' = [NoCall EXCEPT !.op = "poolinit", !.size = size,
                                         !.index = 0, !.via = r.via]
    /\ UNCHANGED <<bucketReady, bheap, owned, reqSize>>

\* ----------------------------------------------------- ThreadCache (v2)
ALIGNMENT == 8
MAX_BYTES == 256
FREE_LIST_SIZE == MAX_BYTES \div ALIGNMENT
\* sholdReturnToCentralCache: threshold
Threshold == 256

\* most fetchRange calls in one run
MaxFetch == 2
\* most allocations the caller of ThreadCache owns at a time
MaxTCHeld == 2
\* the long batch CentralCache may hand out
BigBatch == 257
\* a shorter batch, as CentralCache hands out when its chain runs low
ShortBatch == 86
\* the batch lengths CentralCache may hand out (0: a null batch)
Batches == {0, 1, 2, ShortBatch, BigBatch}
\* the sizes asked of ThreadCache
TCSizes == {0, 2 * ALIGNMENT, MAX_BYTES + 1}
\* what malloc returns for an oversize request
SysPtr == WordMod - ALIGNMENT

\* SizeClass::roundUp: (bytes + ALIGNMENT - 1) & ~(ALIGNMENT - 1)
roundUp(bytes) ==
    Wrap(bytes + ALIGNMENT - 1) - (Wrap(bytes + ALIGNMENT - 1) % ALIGNMENT)

\* an index that forgets to round up
getIndex_RoundDown(bytes) == (Max(bytes, ALIGNMENT) \div ALIGNMENT) - 1

\* SizeClass::getIndex
getIndex(bytes) == ((Max(bytes, ALIGNMENT) + ALIGNMENT - 1) \div ALIGNMENT) - 1

\* a count that leaves out the slot handed to the caller
CountChain_SkipFirst(chain) == Len(chain) - 1

\* fetchFromCentralCache, lines 48-56: the walk from start to nullptr counts
\* every slot of the chain, start included
CountChain(chain) == Len(chain)

\* a fetch that asks CentralCache a second time after a null batch
fetchFromCentralCache_Retry(fl, fs, index, batch) ==
    IF batch = <<>>
    THEN [free_list |-> fl, size |-> fs, ret |-> NULL, fetchCalls |-> 2]
    ELSE [free_list |-> [fl EXCEPT ![index] = Tail(batch)],
          size |-> [fs EXCEPT ![index] = Wrap(@ + CountChain(batch))],
          ret |-> Head(batch), fetchCalls |-> 1]

\* ThreadCache::fetchFromCentralCache(index), fetchRange returning batch
fetchFromCentralCache(fl, fs, index, batch) ==
    IF batch = <<>>
    THEN [free_list |-> fl, size |-> fs, ret |-> NULL, fetchCalls |-> 1]
    ELSE [free_list |-> [fl EXCEPT ![index] = Tail(batch)],
          size |-> [fs EXCEPT ![index] = Wrap(@ + CountChain(batch))],
          ret |-> Head(batch), fetchCalls |-> 1]

\* ThreadCache::allocate(size) for size <= MAX_BYTES after the zero-size
\* normalisation, fetchRange returning batch
allocate(fl, fs, size, batch) ==
    LET index == getIndex(size)
        fs1 == [fs EXCEPT ![index] = Wrap(@ - 1)]
        fl1 == IF fl[index] # <<>> THEN [fl EXCEPT ![index] = Tail(@)] ELSE fl
    IN  fetchFromCentralCache(fl1, fs1, index, batch)

\* ThreadCache::sholdReturnToCentralCache
sholdReturnToCentralCache(fs, index) == fs[index] > Threshold

\* a walk that goes one node too far
SplitWalk_OneMore(chain, keep_num) ==
    IF keep_num + 1 <= Len(chain) THEN keep_num + 1 ELSE 0

\* returnTocentralCache, lines 114-124: the walk to the split node. It starts
\* on the chain's first node and follows keep_num - 1 links: it ends on the
\* node at place keep_num, or, when the chain has fewer nodes, on nullptr
\* (0) after Len(chain) links.
SplitWalk(chain, keep_num) ==
    IF keep_num <= Len(chain) THEN keep_num ELSE 0

\* ThreadCache::returnTocentralCache(start, size), start the class's chain:
\* the cache afterwards and the chain and byte total passed to rerurnRange
\* (calls = 0: no call)
returnTocentralCache(fl, fs, size) ==
    LET index == getIndex(size)
        aligned_size == roundUp(size)
        batch_num == fs[index]
        keep_num == Max(batch_num \div 4, 1)
        chain == fl[index]
        split == SplitWalk(chain, keep_num)
        \* return_num, lowered by the walk when it ran into the end
        return_num == IF split = 0 THEN Wrap(batch_num - Len(chain))
                      ELSE Wrap(batch_num - keep_num)
        next_node == SubSeq(chain, split + 1, Len(chain))
        none == [free_list |-> fl, size |-> fs, calls |-> 0, chain |-> <<>>,
                 bytes |-> 0]
    IN  IF batch_num <= 1 THEN none
        ELSE IF split = 0 THEN none
        ELSE [free_list |-> [fl EXCEPT ![index] = SubSeq(chain, 1, split)],
              size |-> [fs EXCEPT ![index] = keep_num],
              calls |-> IF return_num > 0 /\ next_node # <<>> THEN 1 ELSE 0,
              chain |-> IF return_num > 0 /\ next_node # <<>> THEN next_node
                        ELSE <<>>,
              bytes |-> IF return_num > 0 /\ next_node # <<>>
                        THEN return_num * aligned_size ELSE 0]

\* ThreadCache::deallocate(ptr, size) for size <= MAX_BYTES
deallocate(fl, fs, ptr, size) ==
    LET index == getIndex(size)
        fl1 == [fl EXCEPT ![index] = <<ptr>> \o @]
        fs1 == [fs EXCEPT ![index] = Wrap(@ + 1)]
    IN  IF sholdReturnToCentralCache(fs1, index)
        THEN returnTocentralCache(fl1, fs1, size)
        ELSE [free_list |-> fl1, size |-> fs1, calls |-> 0, chain |-> <<>>,
              bytes |-> 0]

\* CentralCache::fetchRange: a chain of n slots never handed out before
fetchRange(n) == [i \in 1..n |-> fresh + i]

NoTCCall ==
    [op |-> "none", size |-> 0, index |-> 0, ptr |-> NULL, ret |-> NULL,
     preList |-> <<>>, preSize |-> 0, fetchCalls |-> 0, fetched |-> <<>>,
     returnCalls |-> 0, returned |-> <<>>, bytes |-> 0]

TCInitState ==
    /\ free_list_ = [i \in 0..(FREE_LIST_SIZE - 1) |-> <<>>]
    /\ free_list_size_ = [i \in 0..(FREE_LIST_SIZE - 1) |-> 0]
    /\ tcHeld = {}
    /\ fresh = 0
    /\ fetches = 0
    /\ central = {}
    /\ tlast = NoTCCall

\* a call of ThreadCache::allocate(size) with size <= MAX_BYTES
CallAllocate ==
    /\ Cardinality(tcHeld) < MaxTCHeld
    /\ fetches < MaxFetch
    /\ \E asked \in {sz \in TCSizes : sz <= MAX_BYTES}, n \in Batches :
          LET size == IF asked = 0 THEN ALIGNMENT ELSE asked
              index == getIndex(size)
              r == allocate(free_list_, free_list_size_, size, fetchRange(n))
          IN  /\ free_list_' = r.free_list
              /\ free_list_size_' = r.size
              /\ fresh' = fresh + n
              /\ fetches' = fetches + r.fetchCalls
              /\ tcHeld' = IF r.ret = NULL THEN tcHeld
                           ELSE tcHeld \cup {[ptr |-> r.ret, size |-> asked]}
              /\ tlast' = [NoTCCall EXCEPT !.op = "allocate", !.size = asked,
                              !.index = index, !.ret = r.ret,
                              !.preList = free_list_[index],
                              !.preSize = free_list_size_[index],
                              !.fetchCalls = r.fetchCalls,
                              !.fetched = fetchRange(n)]
    /\ UNCHANGED central

\* a call of ThreadCache::allocate(size) with size > MAX_BYTES: malloc
CallAllocateLarge ==
    /\ \A o \in tcHeld : o.ptr # SysPtr
    /\ Cardinality(tcHeld) < MaxTCHeld
    /\ \E asked \in {sz \in TCSizes : sz > MAX_BYTES} :
          /\ tcHeld' = tcHeld \cup {[ptr |-> SysPtr, size |-> asked]}
          /\ tlast' = [NoTCCall EXCEPT !.op = "allocate", !.size = asked,
                          !.ret = SysPtr]
    /\ UNCHANGED <<free_list_, free_list_size_, fresh, fetches, central>>

\* a call of ThreadCache::deallocate(ptr, size) with size <= MAX_BYTES: a
\* pointer the caller owns, with the size it was asked with
CallDeallocate ==
    /\ \E o \in {h \in tcHeld : h.size <= MAX_BYTES} :
          LET index == getIndex(o.size)
              r == deallocate(free_list_, free_list_size_, o.ptr, o.size)
          IN  /\ free_list_' = r.free_list
              /\ free_list_size_' = r.size
              /\ central' = central \cup Range(r.chain)
              /\ tcHeld' = tcHeld \ {o}
              /\ tlast' = [NoTCCall EXCEPT !.op = "deallocate", !.size = o.size,
                              !.index = index, !.ptr = o.ptr,
                              !.preList = free_list_[index],
                              !.preSize = free_list_size_[index],
                              !.returnCalls = r.calls, !.returned = r.chain,
                              !.bytes = r.bytes]
    /\ UNCHANGED <<fresh, fetches>>

\* a call of ThreadCache::deallocate(ptr, size) with size > MAX_BYTES: free
CallDeallocateLarge ==
    /\ \E o \in {h \in tcHeld : h.size > MAX_BYTES} :
          /\ tcHeld' = tcHeld \ {o}
          /\ tlast' = [NoTCCall EXCEPT !.op = "deallocate", !.size = o.size,
                          !.ptr = o.ptr]
    /\ UNCHANGED <<free_list_, free_list_size_, fresh, fetches, central>>

\* a caller maps a size of 0..MAX_BYTES to its class: SizeClass::getIndex(size)
\* and SizeClass::roundUp(size)
CallSizeClass ==
    /\ \E size \in 0..MAX_BYTES :
          tlast' = [NoTCCall EXCEPT !.op = "sizeclass", !.size = size,
                                    !.index = getIndex(size),
                                    !.bytes = roundUp(size)]
    /\ UNCHANGED <<free_list_, free_list_size_, tcHeld, fresh, fetches, central>>

\* ------------------------------------------------------- specifications
PoolIdleState ==
    /\ PoolInitState
    /\ pool.block_size_ = 40

Init == PoolInitState /\ BucketIdleState /\ reqSize = 1 /\ TCInitState

\* the first init call, made before the pool is used
FirstInit == phase = "constructed" /\ CallInit

Next ==
    \/ FirstInit /\ UNCHANGED <<bucketVars, tcVars>>
    \/ Destroy /\ UNCHANGED <<bucketVars, tcVars>>
    \/ \E t \in Threads : ThreadStep(t) /\ UNCHANGED <<bucketVars, tcVars>>

Spec == Init /\ [][Next]_vars

\* one thread, one init call
NextSeq ==
    \/ FirstInit /\ UNCHANGED <<bucketVars, tcVars>>
    \/ Destroy /\ UNCHANGED <<bucketVars, tcVars>>
    \/ ThreadStep(1) /\ UNCHANGED <<bucketVars, tcVars>>

SpecSeq == Init /\ [][NextSeq]_vars

\* one thread; init may be called again on a pool that has served slots
NextLife ==
    \/ CallInit /\ UNCHANGED <<bucketVars, tcVars>>
    \/ Destroy /\ UNCHANGED <<bucketVars, tcVars>>
    \/ ThreadStep(1) /\ UNCHANGED <<bucketVars, tcVars>>

SpecLife == Init /\ [][NextLife]_vars

\* one thread, one init call, any pair of block size and slot size
FirstInitAny == phase = "constructed" /\ CallInitAny

NextAnySize ==
    \/ FirstInitAny /\ UNCHANGED <<bucketVars, tcVars>>
    \/ Destroy /\ UNCHANGED <<bucketVars, tcVars>>
    \/ ThreadStep(1) /\ UNCHANGED <<bucketVars, tcVars>>

SpecAnySize == Init /\ [][NextAnySize]_vars

\* the src/src pool shared by the threads
NextSrc ==
    \/ FirstInit /\ UNCHANGED <<bucketVars, tcVars>>
    \/ Destroy /\ UNCHANGED <<bucketVars, tcVars>>
    \/ \E t \in Threads : SrcThreadStep(t) /\ UNCHANGED <<bucketVars, tcVars>>

SpecSrc == Init /\ [][NextSrc]_vars

\* one thread, one init call, the completed calls recorded
InitLifo ==
    /\ PoolStartState
    /\ trace = [on |-> TRUE, calls |-> <<>>]
    /\ budget = [t \in Threads |-> Unlimited]
    /\ BucketIdleState /\ reqSize = 1 /\ TCInitState

SpecLifo == InitLifo /\ [][NextSeq]_vars

\* the threads make at most MaxCalls calls each; a thread inside a call is
\* scheduled again and again
InitFair ==
    /\ PoolStartState
    /\ trace = [on |-> FALSE, calls |-> <<>>]
    /\ budget = [t \in Threads |-> MaxCalls]
    /\ BucketIdleState /\ reqSize = 1 /\ TCInitState

SpecFair ==
    /\ InitFair
    /\ [][Next]_vars
    /\ \A t \in Threads : WF_vars(Running(t) /\ UNCHANGED <<bucketVars, tcVars>>)

\* HashBucket used by one caller that mixes zero, pooled and oversize requests
InitBucket == PoolIdleState /\ BucketInitState(MixedPooled) /\ TCInitState

NextBucket ==
    \/ CallInitMemoryPool /\ UNCHANGED <<poolVars, tcVars>>
    \/ CallUseMemory(MixedSizes) /\ UNCHANGED <<poolVars, tcVars>>
    \/ CallFreeMemory(MixedSizes) /\ UNCHANGED <<poolVars, tcVars>>

SpecBucket == InitBucket /\ [][NextBucket]_vars

\* HashBucket used by one caller with one request size, any pooled size
InitClass == PoolIdleState /\ BucketInitState(1..MAX_SLOT_SIZE) /\ TCInitState

NextClass ==
    \/ CallInitMemoryPool /\ UNCHANGED <<poolVars, tcVars>>
    \/ CallUseMemory({reqSize}) /\ UNCHANGED <<poolVars, tcVars>>
    \/ CallFreeMemory({reqSize}) /\ UNCHANGED <<poolVars, tcVars>>

SpecClass == InitClass /\ [][NextClass]_vars

\* HashBucket used by a caller that calls initMemoryPool before each round
\* of requests
InitSetUp == PoolIdleState /\ BucketInitState(MixedPooled) /\ TCInitState

NextSetUp ==
    \/ CallInitMemoryPool /\ UNCHANGED <<poolVars, tcVars>>
    \/ CallInitMemoryPoolAgain /\ UNCHANGED <<poolVars, tcVars>>
    \/ CallUseMemory({reqSize}) /\ UNCHANGED <<poolVars, tcVars>>
    \/ CallFreeMemory({reqSize}) /\ UNCHANGED <<poolVars, tcVars>>

SpecSetUp == InitSetUp /\ [][NextSetUp]_vars

\* HashBucket and its pools used within and against their contracts, until
\* an assert aborts the process
NextContract ==
    \/ Alive /\ CallInitMemoryPool /\ UNCHANGED <<poolVars, tcVars>>
    \/ Alive /\ CallGetMemoryPool /\ UNCHANGED <<poolVars, tcVars>>
    \/ Alive /\ CallPoolInit /\ UNCHANGED <<poolVars, tcVars>>
    \/ Alive /\ CallUseMemory({reqSize}) /\ UNCHANGED <<poolVars, tcVars>>
    \/ Alive /\ CallFreeMemory({reqSize}) /\ UNCHANGED <<poolVars, tcVars>>

SpecContract == InitBucket /\ [][NextContract]_vars

\* one thread's ThreadCache in front of CentralCache
InitCache == PoolIdleState /\ BucketIdleState /\ reqSize = 1 /\ TCInitState

NextCache ==
    \/ CallAllocate /\ UNCHANGED <<poolVars, bucketVars>>
    \/ CallAllocateLarge /\ UNCHANGED <<poolVars, bucketVars>>
    \/ CallDeallocate /\ UNCHANGED <<poolVars, bucketVars>>
    \/ CallDeallocateLarge /\ UNCHANGED <<poolVars, bucketVars>>

SpecCache == InitCache /\ [][NextCache]_vars

\* SizeClass applied to every size a thread cache serves
NextSizeClass ==
    \/ CallSizeClass /\ UNCHANGED <<poolVars, bucketVars>>

SpecSizeClass == InitCache /\ [][NextSizeClass]_vars

\* ------------------------------------------------------------ claims
\* C1: under any interleaving of Allocate and Deallocate by several threads
\* on one initialised pool, every Allocate returns a non-null slot and no two
\* simultaneously live pointers are equal.
C1_LivePointersDistinct ==
    /\ ~nullReturned
    /\ ~aliased
    /\ NULL \notin Live
    /\ \A t1, t2 \in Threads : t1 # t2 => held[t1] \cap held[t2] = {}
    /\ \A t \in Threads : pc[t] \in {"D68", "D69"} => arg[t] \notin Live
    /\ Range(pool.free_list_) \cap Live = {}

\* a slot is owned while one thread pops the free list and the other bumps
C1_Witness ==
    /\ held[2] # {}
    /\ pc[1] = "A41" /\ pool.free_list_ # <<>>
    /\ pc[2] = "A57"

\* C2: on one thread Allocate pops the free list whenever it is non-empty and
\* bump-allocates only when it is empty, so the slots ever carved from raw
\* blocks never outnumber the peak of simultaneously live slots.
C2_ReuseBeforeCarve ==
    /\ pc[1] \in {"A51", "A54", "A57"} => pool.free_list_ = <<>>
    /\ pc[1] \in {"A40", "A41"} => pool.free_list_ # <<>>
    /\ Cardinality(carved) <= peakLive

\* a freed slot was handed out again: two carved, two live at the peak, and
\* the free list holds a slot while the thread owns the other
C2_Witness ==
    /\ Cardinality(carved) = 2
    /\ peakLive = 2
    /\ Len(pool.free_list_) = 1
    /\ Cardinality(held[1]) = 1
    /\ pc[1] = "A41"

Count(s, x) == Cardinality({i \in DOMAIN s : s[i] = x})

\* C3: when the pool is destroyed every raw block acquired since its
\* construction is released exactly once, after any sequence of init,
\* Allocate and Deallocate calls.
C3_TeardownReleasesEachBlockOnce ==
    phase = "destroyed" => \A b \in acquired : Count(released, b) = 1

\* C4: HashBucket::useMemory(0) returns null and leaves every per-class
\* MemoryPool (free list, bump cursor, sentinel, block list) unchanged.
C4_ZeroSizeTouchesNoPool ==
    [][(last'.op = "use" /\ last'.size = 0)
          => /\ last'.via = "none"
             /\ last'.ret = NULL
             /\ pools' = pools
             /\ bheap' = bheap
             /\ owned' = owned]_vars

\* useMemory(0) was called while a pool had a free slot and a carved block
C4_Witness ==
    /\ last.op = "use" /\ last.size = 0 /\ last.ret = NULL
    /\ \E i \in DOMAIN pools :
          pools[i].free_list_ # <<>> /\ pools[i].blocks # <<>>
    /\ owned # {}

\* every entry of a pool's free list is a slot inside a raw block of that pool
FreeListsInBlocks(PS) ==
    \A i \in DOMAIN PS : \A p \in Range(PS[i].free_list_) :
        \E b \in Range(PS[i].blocks) :
            b + PtrSize <= p /\ p + PS[i].slot_size_ <= b + PS[i].block_size_

\* C5: for size > MAX_SLOT_SIZE, useMemory takes the memory from the system
\* allocator and the matching freeMemory gives it back there; both leave all
\* pools unchanged and the pointer is never put on a pool's free list.
C5_OversizeBypassesPools ==
    /\ []FreeListsInBlocks(pools)
    /\ [][(last'.op = "use" /\ last'.size > MAX_SLOT_SIZE)
             => /\ last'.via = "system"
                /\ last'.ret # NULL
                /\ pools' = pools
                /\ \A r \in bheap : r.base # last'.ret
                /\ bheap' = bheap \cup {[base |-> last'.ret, size |-> last'.size]}]_vars
    /\ [][(last'.op = "free" /\ last'.size > MAX_SLOT_SIZE
              /\ last'.ptr # NULL)
             => /\ last'.via = "system"
                /\ pools' = pools
                /\ [base |-> last'.ptr, size |-> last'.size] \in bheap
                /\ bheap' = bheap \ {[base |-> last'.ptr, size |-> last'.size]}]_vars

\* an oversize pointer was freed while pools held free slots
C5_Witness ==
    /\ last.op = "free" /\ last.size = MAX_SLOT_SIZE + 1 /\ last.ptr # NULL
    /\ last.via = "system"
    /\ \E i \in DOMAIN pools : pools[i].free_list_ # <<>>

\* ceil(size / SLOT_BASE_SIZE)
CeilBase(size) ==
    CHOOSE k \in 0..size :
        k * SLOT_BASE_SIZE >= size /\ (k - 1) * SLOT_BASE_SIZE < size

\* C6: for 1 <= size <= MAX_SLOT_SIZE, useMemory and freeMemory both select
\* pool index ceil(size/8) - 1, which lies in [0, 64), and that pool's slot
\* size (index + 1) * 8 is the smallest multiple of 8 that is >= size.
C6_RoutesToSmallestFittingClass ==
    (/\ last.op \in {"use", "free"}
     /\ 1 <= last.size /\ last.size <= MAX_SLOT_SIZE
     /\ (last.op = "free" => last.ptr # NULL))
    => /\ last.via = "pool"
       /\ last.index = CeilBase(last.size) - 1
       /\ last.index \in 0..(MEMORY_POOL_NUM - 1)
       /\ pools[last.index].slot_size_ = (last.index + 1) * SLOT_BASE_SIZE
       /\ pools[last.index].slot_size_ % SLOT_BASE_SIZE = 0
       /\ pools[last.index].slot_size_ >= last.size
       /\ pools[last.index].slot_size_ - SLOT_BASE_SIZE < last.size

\* a pointer asked with a size just above a multiple of 8 went back to the
\* last pool
C6_Witness ==
    /\ last.op = "free" /\ last.ptr # NULL
    /\ last.size = MAX_SLOT_SIZE - 7
    /\ last.index = MEMORY_POOL_NUM - 1
    /\ pools[last.index].free_list_ = <<last.ptr>>

\* C7: for 0 < size <= MAX_SLOT_SIZE every pointer useMemory returns is a
\* multiple of 8, whether it is the first slot of a new block, a later
\* bump-allocated slot or a slot of the free list (raw blocks being 8-aligned).
C7_PooledPointersAligned ==
    /\ (last.op = "use" /\ 0 < last.size /\ last.size <= MAX_SLOT_SIZE)
          => (last.via = "pool" /\ last.ret # NULL /\ last.ret % 8 = 0)
    /\ \A o \in owned : o.size <= MAX_SLOT_SIZE => o.ptr % 8 = 0

\* a slot of a 24-byte class came back from the free list, on an address that
\* is no multiple of 16, while a later slot of the same block is owned
C7_Witness ==
    /\ last.op = "use" /\ last.from = "free_list"
    /\ pools[last.index].slot_size_ = 24
    /\ last.ret % 16 = 8
    /\ \E o \in owned : o.ptr = last.ret + 24

\* C8: with a non-empty local free list, ThreadCache::allocate(size)
\* (size <= MAX_BYTES) returns the head slot of the list, removes exactly that
\* slot and does not call CentralCache; fetchRange is called only when the
\* local list of the class is empty.
C8_LocalHitServedLocally ==
    (tlast.op = "allocate" /\ tlast.size <= MAX_BYTES)
    => /\ tlast.preList # <<>>
          => /\ tlast.ret = Head(tlast.preList)
             /\ free_list_[tlast.index] = Tail(tlast.preList)
             /\ tlast.fetchCalls = 0
       /\ tlast.fetchCalls > 0 => tlast.preList = <<>>

\* C9: when allocate misses locally (empty list, occupancy 0) and CentralCache
\* returns a chain of L >= 1 slots, allocate returns the first slot of the
\* chain, the local free list becomes the remaining L-1 slots and the
\* occupancy counter becomes L-1.
C9_MissSeedsLocalList ==
    (/\ tlast.op = "allocate" /\ tlast.size <= MAX_BYTES
     /\ tlast.preList = <<>> /\ tlast.preSize = 0
     /\ Len(tlast.fetched) >= 1)
    => /\ tlast.ret = tlast.fetched[1]
       /\ free_list_[tlast.index] = Tail(tlast.fetched)
       /\ free_list_size_[tlast.index] = Len(tlast.fetched) - 1

\* a miss on a class whose list is empty and whose counter is 0, after earlier
\* traffic, answered with a chain of two slots
C9_Witness ==
    /\ tlast.op = "allocate" /\ tlast.size <= MAX_BYTES
    /\ tlast.preList = <<>> /\ tlast.preSize = 0
    /\ Len(tlast.fetched) = 2
    /\ fetches >= 2
    /\ free_list_size_[tlast.index] = 1

\* the chain of a deallocate before its batch return: the freed slot pushed
\* on the list as it was
Pushed == <<tlast.ptr>> \o tlast.preList

\* C10: when a deallocate raises a class's occupancy to n > 256 and the local
\* chain holds exactly n slots, the return keeps exactly k = max(n div 4, 1)
\* slots (the most recently freed ones) on the local list, passes the other
\* n-k slots to CentralCache as one chain in a single call and sets the
\* counter to k; the two chains are disjoint and together hold the n slots.
C10_BatchReturnKeepsQuarter ==
    (/\ tlast.op = "deallocate" /\ tlast.size <= MAX_BYTES
     /\ Wrap(tlast.preSize + 1) > Threshold
     /\ Len(Pushed) = Wrap(tlast.preSize + 1))
    => LET n == Len(Pushed)
           k == Max(n \div 4, 1)
       IN  /\ free_list_[tlast.index] = SubSeq(Pushed, 1, k)
           /\ tlast.returnCalls = 1
           /\ tlast.returned = SubSeq(Pushed, k + 1, n)
           /\ Len(tlast.returned) = n - k
           /\ free_list_size_[tlast.index] = k
           /\ Range(free_list_[tlast.index]) \cap Range(tlast.returned) = {}
           /\ Range(free_list_[tlast.index]) \cup Range(tlast.returned)
                 = Range(Pushed)
           /\ Len(free_list_[tlast.index]) + Len(tlast.returned)
                 = Cardinality(Range(Pushed))

\* the 257th slot of a class was freed: 64 kept, 193 handed back
C10_Witness ==
    /\ tlast.op = "deallocate"
    /\ tlast.preSize = Threshold /\ Len(tlast.preList) = Threshold
    /\ tlast.returnCalls = 1
    /\ Len(free_list_[tlast.index]) = 64
    /\ Len(tlast.returned) = 193

\* C11: immediately after any deallocate of a pooled size returns, the
\* occupancy counter of that size class is at most the threshold 256.
C11_OccupancyWithinThreshold ==
    (tlast.op = "deallocate" /\ tlast.size <= MAX_BYTES)
    => free_list_size_[tlast.index] <= Threshold

\* C12: if CentralCache returns a null batch, ThreadCache::allocate returns
\* null for that request and calls CentralCache exactly once.
C12_NullBatchFailsWithoutRetry ==
    (tlast.op = "allocate" /\ tlast.size <= MAX_BYTES /\ tlast.fetched = <<>>)
    => /\ tlast.ret = NULL
       /\ tlast.fetchCalls = 1
       /\ \A o \in tcHeld : o.ptr # NULL

\* a null batch answered an allocate of a class whose local list held a slot
C12_Witness ==
    /\ tlast.op = "allocate" /\ tlast.size <= MAX_BYTES
    /\ tlast.fetched = <<>>
    /\ tlast.preList # <<>>
    /\ tlast.ret = NULL
    /\ fetches = 2

\* C13 as stated: neither MemoryPool lock is held by the thread that calls
\* the backing allocator; operator new in AllocateNewBlock is called with
\* both locks released.
C13_NoLockAcrossBackingCall ==
    \A t \in Threads :
        pc[t] = "A54" => (mutex_for_block_ # t /\ mutex_for_free_list_ # t)

\* C13: mutex_for_free_list_ is held only for a free-list push or pop and
\* never while the backing allocator is called; mutex_for_block_ is held for
\* the cursor bump and across the operator new of AllocateNewBlock, whose
\* caller always holds it.
C13_GrowthUnderBlockLockOnly ==
    \A t \in Threads :
        /\ pc[t] = "A54" => (mutex_for_block_ = t /\ mutex_for_free_list_ # t)
        /\ mutex_for_free_list_ = t => pc[t] \in {"A41", "D69"}
        /\ mutex_for_block_ = t => pc[t] \in {"A54", "A57"}

\* a thread is about to acquire the pool's second block while the other
\* thread works on the free list under its lock
C13_Witness ==
    /\ pc[1] = "A54" /\ mutex_for_block_ = 1
    /\ mutex_for_free_list_ = 2
    /\ pool.blocks # <<>>

\* C14: no thread ever holds mutex_for_free_list_ and mutex_for_block_ at the
\* same time: a thread in Deallocate or in the free-list pop of Allocate
\* neither holds nor waits for the block lock, and a thread on the bump path
\* neither holds nor waits for the free-list lock.
C14_LocksNeverHeldTogether ==
    \A t \in Threads :
        /\ ~(mutex_for_free_list_ = t /\ mutex_for_block_ = t)
        /\ pc[t] \in {"A40", "A41", "D68", "D69"} => mutex_for_block_ # t
        /\ pc[t] \in {"A51", "A54", "A57"} => mutex_for_free_list_ # t
        /\ pc[t] = "idle" => (mutex_for_free_list_ # t /\ mutex_for_block_ # t)

\* one thread pushes a freed slot under the free-list lock while the other
\* bumps the cursor under the block lock
C14_Witness ==
    /\ pc[1] = "D69" /\ mutex_for_free_list_ = 1
    /\ pc[2] = "A57" /\ mutex_for_block_ = 2

\* C15: after the pools have served allocations, a further
\* HashBucket::initMemoryPool call leaves each pool's block list, bump cursor,
\* sentinel and free list unchanged.
C15_PoolsInitialisedOnce ==
    [][(/\ bucketReady
        /\ last'.op = "init"
        /\ \E i \in DOMAIN pools : pools[i].blocks # <<>>)
          => \A i \in DOMAIN pools :
                /\ pools'[i].blocks = pools[i].blocks
                /\ pools'[i].current_slot_ = pools[i].current_slot_
                /\ pools'[i].last_slot_ = pools[i].last_slot_
                /\ pools'[i].free_list_ = pools[i].free_list_]_vars

\* the slots CentralCache has handed to the thread
Handed == 1..fresh

\* the pooled slots the caller holds
InCallersHands == {o.ptr : o \in {h \in tcHeld : h.size <= MAX_BYTES}}

\* the slots linked on the thread's local free lists
OnLocalLists == UNION {Range(free_list_[i]) : i \in DOMAIN free_list_}

\* C16: every slot that CentralCache handed to the thread is at all times in
\* exactly one place: held by the caller, on the thread's local free list of
\* its class, or handed back to CentralCache; none is lost, none is in two.
C16_EverySlotInOnePlace ==
    /\ Handed = InCallersHands \cup OnLocalLists \cup central
    /\ InCallersHands \cap OnLocalLists = {}
    /\ InCallersHands \cap central = {}
    /\ OnLocalLists \cap central = {}
    /\ \A i \in DOMAIN free_list_ :
          /\ Cardinality(Range(free_list_[i])) = Len(free_list_[i])
          /\ \A j \in DOMAIN free_list_ :
                i # j => Range(free_list_[i]) \cap Range(free_list_[j]) = {}

\* C17: after any sequence of allocate/deallocate calls (failed allocations
\* included) the occupancy counter free_list_size_[i] of every class i equals
\* the number of slots linked on free_list_[i]; it never wraps below zero.
C17_CounterEqualsListLength ==
    \A i \in DOMAIN free_list_ : free_list_size_[i] = Len(free_list_[i])

\* C18: if CentralCache returns a null batch, the failed allocate leaves the
\* thread cache as it was before the call: the free list and the occupancy
\* counter of every class are unchanged.
C18_FailedAllocateChangesNothing ==
    [][(/\ tlast'.op = "allocate" /\ tlast'.size <= MAX_BYTES
        /\ tlast'.fetched = <<>>)
          => (free_list_' = free_list_ /\ free_list_size_' = free_list_size_)]_vars

\* C19: every chain that ThreadCache hands back to CentralCache contains at
\* least two slots.
C19_ReturnedChainHasTwoSlots ==
    (tlast.op = "deallocate" /\ tlast.returnCalls > 0)
    => Len(tlast.returned) >= 2

\* C20: whenever ThreadCache hands a chain back to CentralCache, the byte
\* total it passes equals the number of slots linked in the passed chain
\* times roundUp(size).
C20_ReturnedBytesMatchChain ==
    (tlast.op = "deallocate" /\ tlast.returnCalls > 0)
    => tlast.bytes = Len(tlast.returned) * roundUp(tlast.size)

\* C21: for any block size given to the constructor and any slot size > 0
\* given to init, every slot returned by Allocate occupies slot_size bytes
\* that lie inside one raw block acquired by the pool, start after the block's
\* link word, and do not overlap any other slot carved from the blocks.
C21_SlotsInsideBlocks ==
    /\ Live \subseteq carved
    /\ \A p \in carved :
          /\ \E b \in acquired :
                /\ b + PtrSize <= p
                /\ p + pool.slot_size_ <= b + pool.block_size_
          /\ \A q \in carved :
                p # q => (p + pool.slot_size_ <= q \/ q + pool.slot_size_ <= p)

\* C22: acquiring a new raw block changes only the block teardown list, the
\* bump cursor and the sentinel; it leaves free_list_ unchanged, in the
\* MemoryPool of src/version1 and in the one of src/src.
C22_GrowthKeepsFreeList ==
    [][Len(pool'.blocks) = Len(pool.blocks) + 1
          => /\ pool'.free_list_ = pool.free_list_
             /\ pool'.slot_size_ = pool.slot_size_
             /\ pool'.block_size_ = pool.block_size_]_vars

\* the smallest k >= 0 such that p + k is a multiple of align
SmallestPad(p, align) ==
    CHOOSE k \in 0..(align - 1) : Wrap(p + k) % align = 0

\* C23: for every slot size align > 0 and every address p, PadPointer(p,
\* align) is the smallest k >= 0 such that p + k is a multiple of align, so
\* the first usable slot of every new block starts at a multiple of the slot
\* size.
C23_PaddingAlignsFirstSlot ==
    (last.op = "use" /\ last.from = "new_block")
    => LET body == Head(pools[last.index].blocks) + PtrSize
           align == pools[last.index].slot_size_
       IN  /\ PadPointer(body, align) = SmallestPad(body, align)
           /\ last.ret = body + PadPointer(body, align)
           /\ last.ret % align = 0

\* the calls completed last, the most recent at the end
LastCalls(n) ==
    SubSeq(trace.calls, Len(trace.calls) - n + 1, Len(trace.calls))

\* C24: the free list is last-in-first-out: on one thread Deallocate(p)
\* followed at once by Allocate returns p, and after Deallocate(p1) then
\* Deallocate(p2) the next two Allocate calls return p2 then p1.
C24_FreeListIsLifo ==
    /\ Len(trace.calls) >= 2
          => LET c == LastCalls(2)
             IN  (c[1].op = "Deallocate" /\ c[2].op = "Allocate")
                    => c[2].ptr = c[1].ptr
    /\ Len(trace.calls) >= 4
          => LET c == LastCalls(4)
             IN  (/\ c[1].op = "Deallocate" /\ c[2].op = "Deallocate"
                  /\ c[3].op = "Allocate" /\ c[4].op = "Allocate")
                    => (c[3].ptr = c[2].ptr /\ c[4].ptr = c[1].ptr)

\* two different slots were freed and the next two Allocate calls have
\* returned
C24_Witness ==
    /\ Len(trace.calls) = 4
    /\ trace.calls[1].op = "Deallocate" /\ trace.calls[2].op = "Deallocate"
    /\ trace.calls[1].ptr # trace.calls[2].ptr
    /\ trace.calls[3].op = "Allocate" /\ trace.calls[4].op = "Allocate"
    /\ pc[1] = "idle"

\* C25: with finitely many threads each making finitely many Allocate and
\* Deallocate calls on one shared pool, under weakly fair scheduling every
\* call eventually returns.
C25_EveryCallReturns ==
    \A t \in Threads : (pc[t] # "idle") ~> (pc[t] = "idle")

\* a thread waits for the free-list lock while the other holds it, and a
\* slot is owned
C25_Witness ==
    /\ pc[1] \in {"A40", "D68"}
    /\ mutex_for_free_list_ = 2
    /\ budget[1] = 0
    /\ Live # {}

\* ceil(size / ALIGNMENT)
CeilAlign(size) ==
    CHOOSE k \in 0..size : k * ALIGNMENT >= size /\ (k - 1) * ALIGNMENT < size

\* C26: for 1 <= size <= MAX_BYTES, getIndex(size) = ceil(size/ALIGNMENT) - 1
\* and lies in [0, FREE_LIST_SIZE), roundUp(size) is the smallest multiple of
\* ALIGNMENT that is >= size, and roundUp(size) = (getIndex(size) + 1) *
\* ALIGNMENT; getIndex(0) equals getIndex(ALIGNMENT).
C26_SizeClassMapping ==
    tlast.op = "sizeclass"
    => /\ (1 <= tlast.size /\ tlast.size <= MAX_BYTES)
             => /\ tlast.index = CeilAlign(tlast.size) - 1
                /\ tlast.index \in 0..(FREE_LIST_SIZE - 1)
                /\ tlast.bytes % ALIGNMENT = 0
                /\ tlast.bytes >= tlast.size
                /\ tlast.bytes - ALIGNMENT < tlast.size
                /\ tlast.bytes = (tlast.index + 1) * ALIGNMENT
       /\ tlast.size = 0 => tlast.index = getIndex(ALIGNMENT)

\* a size just above a multiple of ALIGNMENT was mapped to the last class
C26_Witness ==
    /\ tlast.op = "sizeclass"
    /\ tlast.size = MAX_BYTES - ALIGNMENT + 1
    /\ tlast.index = FREE_LIST_SIZE - 1
    /\ tlast.bytes = MAX_BYTES

\* C27: contract violations fail fast and change nothing: getMemoryPool with
\* an index outside [0, MEMORY_POOL_NUM) raises an error without returning or
\* modifying any pool, and init(0) is rejected without leaving a pool whose
\* slot size is 0 in a usable state.
C27_ContractViolationsFailFast ==
    /\ [](last.op = "get" => (last.via = "throw" <=> ~InRange(last.index)))
    /\ [][last'.op = "get" => pools' = pools]_vars
    /\ []((last.op = "poolinit" /\ last.size = 0)
             => /\ last.via = "abort"
                /\ pools[last.index].slot_size_ > 0 \/ ~Alive)

====
